---- MODULE Spec2Model ----
(***************************************************************************)
(* Model of src/cleaning.py: the insurance data cleaning pipeline.         *)
(*                                                                         *)
(* A text is a sequence of one-character strings, so that lower(),         *)
(* replace(), split() and the string order used by mode() are computed     *)
(* character by character.  A number is a fixed-point value counted in     *)
(* units of 1/Scale.  A cell is a record tagged "str", "num" or "nan"      *)
(* (the missing marker).  A DataFrame is its index plus its columns, each  *)
(* column a name, a dtype and one cell per row.                            *)
(***************************************************************************)
EXTENDS Integers, Sequences, FiniteSets, TLC

\* pc: where the run stands; arg, keep: the table and the keep policy a
\* function is called with; ret: what the call returned or raised; df: the
\* table the driver threads through its steps; disk: the files; url,
\* output_path: main's arguments.
VARIABLES pc, df, arg, keep, ret, disk, url, output_path

vars == <<pc, df, arg, keep, ret, disk, url, output_path>>

(***************************************************************************)
(* Bounds of the model.                                                    *)
(***************************************************************************)
\* columns of a table whose names are cleaned
MaxCols == 2
\* rows of a table whose nulls are filled or whose duplicates are dropped
MaxRows == 3
\* rows of a table whose cells are converted one by one
MaxCells == 2
\* rows of the scenario file beside the scenario's row
MaxExtra == 2

(***************************************************************************)
(* Characters and texts.                                                   *)
(***************************************************************************)
\* The characters used, in code point order (the order of Python's str).
Chars ==
  << " ", "%", "-", ".", "/",
     "0", "1", "2", "3", "4", "5", "6", "7", "8", "9",
     "A", "B", "C", "D", "E", "F", "G", "H", "I", "J", "K", "L", "M",
     "N", "O", "P", "Q", "R", "S", "T", "U", "V", "W", "X", "Y", "Z",
     "_",
     "a", "b", "c", "d", "e", "f", "g", "h", "i", "j", "k", "l", "m",
     "n", "o", "p", "q", "r", "s", "t", "u", "v", "w", "x", "y", "z" >>

UpperChars ==
  << "A", "B", "C", "D", "E", "F", "G", "H", "I", "J", "K", "L", "M",
     "N", "O", "P", "Q", "R", "S", "T", "U", "V", "W", "X", "Y", "Z" >>

LowerChars ==
  << "a", "b", "c", "d", "e", "f", "g", "h", "i", "j", "k", "l", "m",
     "n", "o", "p", "q", "r", "s", "t", "u", "v", "w", "x", "y", "z" >>

Digits == << "0", "1", "2", "3", "4", "5", "6", "7", "8", "9" >>

Range(s) == { s[i] : i \in DOMAIN s }

Ord(c) == CHOOSE i \in DOMAIN Chars : Chars[i] = c

IsUpper(c) == c \in Range(UpperChars)

\* str.lower() on one character
LowerChar(c) ==
  IF IsUpper(c)
    THEN LowerChars[CHOOSE i \in DOMAIN UpperChars : UpperChars[i] = c]
    ELSE c

\* str.lower()
Lower(s) == [i \in DOMAIN s |-> LowerChar(s[i])]

\* str.replace(old, new) for a one-character old and a new of length 0 or 1
RECURSIVE ReplaceChar(_, _, _)
ReplaceChar(s, old, new) ==
  IF s = <<>> THEN <<>>
  ELSE (IF Head(s) = old THEN new ELSE <<Head(s)>>)
         \o ReplaceChar(Tail(s), old, new)

\* Python's s < t on str: lexicographic by code point
RECURSIVE TextLess(_, _)
TextLess(s, t) ==
  IF t = <<>> THEN FALSE
  ELSE IF s = <<>> THEN TRUE
  ELSE IF Head(s) # Head(t) THEN Ord(Head(s)) < Ord(Head(t))
  ELSE TextLess(Tail(s), Tail(t))

\* str.split(sep) for a one-character sep: the list of tokens
RECURSIVE Split(_, _)
Split(s, sep) ==
  IF \A i \in DOMAIN s : s[i] # sep THEN << s >>
  ELSE LET k == CHOOSE i \in DOMAIN s :
                  s[i] = sep /\ \A j \in 1..(i - 1) : s[j] # sep
       IN  << SubSeq(s, 1, k - 1) >> \o Split(SubSeq(s, k + 1, Len(s)), sep)

(***************************************************************************)
(* Cells, columns, tables.                                                 *)
(***************************************************************************)
\* Numbers are fixed-point with two decimal digits.
Scale == 10 * 10

Str(s) == [t |-> "str", s |-> s, n |-> 0]
Num(n) == [t |-> "num", s |-> <<>>, n |-> n]
NaN == [t |-> "nan", s |-> <<>>, n |-> 0]

IsNa(v) == v.t = "nan"

Column(name, dtype, values) == [name |-> name, dtype |-> dtype, values |-> values]

NRows(d) == Len(d.index)
NCols(d) == Len(d.cols)
ColumnNames(d) == [c \in DOMAIN d.cols |-> d.cols[c].name]
Row(d, i) == [c \in DOMAIN d.cols |-> d.cols[c].values[i]]

RangeIndex(n) == [i \in 1..n |-> i - 1]

NoDF == [index |-> <<>>, cols |-> <<>>]

\* What a call gives: the returned table, or the exception it raised.
Returned(d) == [exc |-> "", df |-> d]
Raised(e) == [exc |-> e, df |-> NoDF]
NoCall == [exc |-> "-", df |-> NoDF]

(***************************************************************************)
(* clean_column_names                                                      *)
(***************************************************************************)
Txt_st == << "s", "t" >>
Txt_state == << "s", "t", "a", "t", "e" >>

\* Mutant: the spaces are left in the names.
CleanNameKeepSpaces(name) ==
  IF Lower(name) = Txt_st THEN Txt_state ELSE Lower(name)

\* df.columns.str.lower().str.replace(" ", "_"), then 'st' -> 'state'
CleanName(name) ==
  LET col == ReplaceChar(Lower(name), " ", << "_" >>)
  IN  IF col = Txt_st THEN Txt_state ELSE col

CleanColumnNames(d) ==
  Returned([d EXCEPT !.cols =
              [c \in DOMAIN d.cols |-> [d.cols[c] EXCEPT !.name = CleanName(@)]]])

(***************************************************************************)
(* Numbers as text: what read_csv / to_numeric parse and what str() and    *)
(* to_csv write.                                                           *)
(***************************************************************************)
IsDigits(s) == \A i \in DOMAIN s : s[i] \in Range(Digits)

DigitValue(c) == (CHOOSE i \in DOMAIN Digits : Digits[i] = c) - 1

RECURSIVE DigitsValue(_)
DigitsValue(s) ==
  IF s = <<>> THEN 0
  ELSE 10 * DigitsValue(SubSeq(s, 1, Len(s) - 1)) + DigitValue(s[Len(s)])

RECURSIVE Pow10(_)
Pow10(k) == IF k = 0 THEN 1 ELSE 10 * Pow10(k - 1)

NotANumber == [ok |-> FALSE, n |-> 0, int |-> FALSE]

\* An unsigned decimal literal: digits, digits.digits, digits. or .digits
\* (exact for up to two fractional digits, further digits are cut).
ParseUnsigned(s) ==
  LET parts == Split(s, ".")
  IN  IF Len(parts) = 1
        THEN IF s # <<>> /\ IsDigits(s)
               THEN [ok |-> TRUE, n |-> DigitsValue(s) * Scale, int |-> TRUE]
               ELSE NotANumber
      ELSE IF Len(parts) = 2
        THEN LET ip == parts[1]
                 fp == parts[2]
             IN  IF IsDigits(ip) /\ IsDigits(fp) /\ (ip # <<>> \/ fp # <<>>)
                   THEN [ok |-> TRUE,
                         n |-> DigitsValue(ip) * Scale
                                 + (DigitsValue(fp) * Scale) \div Pow10(Len(fp)),
                         int |-> FALSE]
                   ELSE NotANumber
      ELSE NotANumber

\* The number a text stands for, if any; int tells an integer literal.
ParseNumber(s) ==
  IF s # <<>> /\ Head(s) = "-"
    THEN LET r == ParseUnsigned(Tail(s))
         IN  [r EXCEPT !.n = 0 - r.n]
    ELSE ParseUnsigned(s)

RECURSIVE NatText(_)
NatText(k) ==
  IF k < 10 THEN << Digits[k + 1] >>
  ELSE NatText(k \div 10) \o << Digits[(k % 10) + 1] >>

Abs(x) == IF x < 0 THEN 0 - x ELSE x

SignText(x) == IF x < 0 THEN << "-" >> ELSE <<>>

\* str() of an int64 value
IntText(x) == SignText(x) \o NatText(Abs(x) \div Scale)

\* str() of a float64 value: at least one fractional digit, no trailing zeros
FloatText(x) ==
  LET fr == Abs(x) % Scale
      d1 == fr \div 10
      d2 == fr % 10
  IN  SignText(x) \o NatText(Abs(x) \div Scale) \o << "." >>
        \o << Digits[d1 + 1] >>
        \o (IF d2 = 0 THEN <<>> ELSE << Digits[d2 + 1] >>)

Txt_nan == << "n", "a", "n" >>

\* Series.astype(str) on one cell
CellText(v, dtype) ==
  IF v.t = "str" THEN v.s
  ELSE IF v.t = "nan" THEN Txt_nan
  ELSE IF dtype = "int64" THEN IntText(v.n)
  ELSE FloatText(v.n)

IsNumeric(col) == col.dtype \in {"int64", "float64"}

HasNa(col) == \E i \in DOMAIN col.values : IsNa(col.values[i])

\* pd.to_numeric(errors="coerce") on one cell
ToNumericCell(v) ==
  IF v.t = "str"
    THEN IF ParseNumber(v.s).ok THEN Num(ParseNumber(v.s).n) ELSE NaN
    ELSE v

\* pd.to_numeric(series, errors="coerce"): int64 when every cell is an
\* integer literal, float64 otherwise
ToNumeric(col) ==
  IF IsNumeric(col) THEN col
  ELSE LET allInt == \A i \in DOMAIN col.values :
                        /\ col.values[i].t = "str"
                        /\ ParseNumber(col.values[i].s).ok
                        /\ ParseNumber(col.values[i].s).int
       IN  [col EXCEPT !.dtype = IF allInt THEN "int64" ELSE "float64",
                       !.values = [i \in DOMAIN col.values
                                     |-> ToNumericCell(col.values[i])]]

(***************************************************************************)
(* clean_invalid_values                                                    *)
(***************************************************************************)
Txt_gender == << "g", "e", "n", "d", "e", "r" >>
Txt_education == << "e", "d", "u", "c", "a", "t", "i", "o", "n" >>
Txt_customer_lifetime_value == << "c", "u", "s", "t", "o", "m", "e", "r", "_", "l", "i", "f", "e", "t", "i", "m", "e", "_", "v", "a", "l", "u", "e" >>
Txt_vehicle_class == << "v", "e", "h", "i", "c", "l", "e", "_", "c", "l", "a", "s", "s" >>
Txt_number_of_open_complaints == << "n", "u", "m", "b", "e", "r", "_", "o", "f", "_", "o", "p", "e", "n", "_", "c", "o", "m", "p", "l", "a", "i", "n", "t", "s" >>
Txt_Male == << "M", "a", "l", "e" >>
Txt_M == << "M" >>
Txt_female == << "f", "e", "m", "a", "l", "e" >>
Txt_F == << "F" >>
Txt_Femal == << "F", "e", "m", "a", "l" >>
Txt_AZ == << "A", "Z" >>
Txt_Arizona == << "A", "r", "i", "z", "o", "n", "a" >>
Txt_Cali == << "C", "a", "l", "i" >>
Txt_California == << "C", "a", "l", "i", "f", "o", "r", "n", "i", "a" >>
Txt_WA == << "W", "A" >>
Txt_Washington == << "W", "a", "s", "h", "i", "n", "g", "t", "o", "n" >>
Txt_Bachelors == << "B", "a", "c", "h", "e", "l", "o", "r", "s" >>
Txt_Bachelor == << "B", "a", "c", "h", "e", "l", "o", "r" >>
Txt_Sports_Car == << "S", "p", "o", "r", "t", "s", " ", "C", "a", "r" >>
Txt_Luxury_SUV == << "L", "u", "x", "u", "r", "y", " ", "S", "U", "V" >>
Txt_Luxury_Car == << "L", "u", "x", "u", "r", "y", " ", "C", "a", "r" >>
Txt_Luxury == << "L", "u", "x", "u", "r", "y" >>

GenderMap == { << Txt_Male, Txt_M >>, << Txt_female, Txt_F >>, << Txt_Femal, Txt_F >> }

StateMap == { << Txt_AZ, Txt_Arizona >>, << Txt_Cali, Txt_California >>,
              << Txt_WA, Txt_Washington >> }

EducationMap == { << Txt_Bachelors, Txt_Bachelor >> }

VehicleClassMap == { << Txt_Sports_Car, Txt_Luxury >>, << Txt_Luxury_SUV, Txt_Luxury >>,
                     << Txt_Luxury_Car, Txt_Luxury >> }

\* Series.replace(dict) on one cell: exact match of the whole value
ReplaceCell(v, map) ==
  IF v.t = "str" /\ \E m \in map : m[1] = v.s
    THEN Str((CHOOSE m \in map : m[1] = v.s)[2])
    ELSE v

SeriesReplace(col, map) ==
  [col EXCEPT !.values = [i \in DOMAIN col.values |-> ReplaceCell(col.values[i], map)]]

\* Mutant: the '%' characters are left in the cell.
StripPercentCellKept(v) == v

\* Series.str.replace("%", "", regex=False) on one cell
StripPercentCell(v) ==
  IF v.t = "str" THEN Str(ReplaceChar(v.s, "%", <<>>)) ELSE v

StrReplacePercent(col) ==
  [col EXCEPT !.values = [i \in DOMAIN col.values |-> StripPercentCell(col.values[i])]]

CleanInvalidColumn(col) ==
  IF col.name = Txt_gender THEN SeriesReplace(col, GenderMap)
  ELSE IF col.name = Txt_state THEN SeriesReplace(col, StateMap)
  ELSE IF col.name = Txt_education THEN SeriesReplace(col, EducationMap)
  ELSE IF col.name = Txt_customer_lifetime_value THEN StrReplacePercent(col)
  ELSE IF col.name = Txt_vehicle_class THEN SeriesReplace(col, VehicleClassMap)
  ELSE col

\* The .str accessor exists only on a text (object) column.
CleanInvalidValues(d) ==
  IF \E c \in DOMAIN d.cols :
       d.cols[c].name = Txt_customer_lifetime_value /\ d.cols[c].dtype # "object"
    THEN Raised("AttributeError")
    ELSE Returned([d EXCEPT !.cols = [c \in DOMAIN d.cols |-> CleanInvalidColumn(d.cols[c])]])

(***************************************************************************)
(* format_data_types                                                       *)
(***************************************************************************)
\* Mutant: the token at index 0 is taken.
MiddleTokenFirst(v, dtype) ==
  LET parts == Split(CellText(v, dtype), "/")
  IN  IF Len(parts) >= 2 THEN Str(parts[1]) ELSE NaN

\* .astype(str).str.split("/").str[1] on one cell
MiddleToken(v, dtype) ==
  LET parts == Split(CellText(v, dtype), "/")
  IN  IF Len(parts) >= 2 THEN Str(parts[2]) ELSE NaN

ExtractMiddle(col) ==
  [col EXCEPT !.dtype = "object",
              !.values = [i \in DOMAIN col.values |-> MiddleToken(col.values[i], col.dtype)]]

FormatColumn(col) ==
  IF col.name = Txt_customer_lifetime_value THEN ToNumeric(col)
  ELSE IF col.name = Txt_number_of_open_complaints THEN ToNumeric(ExtractMiddle(col))
  ELSE col

FormatDataTypes(d) ==
  Returned([d EXCEPT !.cols = [c \in DOMAIN d.cols |-> FormatColumn(d.cols[c])]])

(***************************************************************************)
(* handle_nulls                                                            *)
(***************************************************************************)
\* The non-missing cells of a column, in row order
RECURSIVE DropNa(_)
DropNa(vs) ==
  IF vs = <<>> THEN <<>>
  ELSE (IF IsNa(Head(vs)) THEN <<>> ELSE << Head(vs) >>) \o DropNa(Tail(vs))

RECURSIVE InsertSorted(_, _)
InsertSorted(x, s) ==
  IF s = <<>> THEN << x >>
  ELSE IF x <= Head(s) THEN << x >> \o s
  ELSE << Head(s) >> \o InsertSorted(x, Tail(s))

RECURSIVE SortNums(_)
SortNums(s) == IF s = <<>> THEN <<>> ELSE InsertSorted(Head(s), SortNums(Tail(s)))

\* Series.median(): the middle of the sorted non-missing values, the mean of
\* the two middles for an even count, missing when there is none
Median(col) ==
  LET present == DropNa(col.values)
      nums == SortNums([i \in DOMAIN present |-> present[i].n])
      k == Len(nums)
  IN  IF k = 0 THEN NaN
      ELSE IF k % 2 = 1 THEN Num(nums[(k + 1) \div 2])
      ELSE Num((nums[k \div 2] + nums[(k \div 2) + 1]) \div 2)

Count(vs, v) == Cardinality({ i \in DOMAIN vs : vs[i] = v })

\* Series.mode(dropna=True): the most frequent values, sorted
Modes(col) ==
  LET present == DropNa(col.values)
  IN  { v \in Range(present) : \A w \in Range(present) : Count(present, w) <= Count(present, v) }

\* Mutant: the modes are taken in the order they are met in the column.
FirstModeEncountered(col) ==
  LET present == DropNa(col.values)
  IN  present[CHOOSE i \in DOMAIN present :
                /\ present[i] \in Modes(col)
                /\ \A j \in 1..(i - 1) : present[j] \notin Modes(col)]

\* Series.mode(dropna=True)[0]: the first of the sorted modes
FirstMode(col) ==
  CHOOSE v \in Modes(col) : \A w \in Modes(col) : w = v \/ TextLess(v.s, w.s)

FillNa(col, fill) ==
  [col EXCEPT !.values = [i \in DOMAIN col.values
                            |-> IF IsNa(col.values[i]) THEN fill ELSE col.values[i]]]

HandleNullsColumn(col) ==
  IF ~HasNa(col) THEN col
  ELSE IF IsNumeric(col) THEN FillNa(col, Median(col))
  ELSE FillNa(col, FirstMode(col))

\* mode()[0] on a text column without any value raises KeyError
HandleNulls(d) ==
  IF \E c \in DOMAIN d.cols :
       /\ d.cols[c].dtype = "object"
       /\ HasNa(d.cols[c])
       /\ DropNa(d.cols[c].values) = <<>>
    THEN Raised("KeyError")
    ELSE Returned([d EXCEPT !.cols = [c \in DOMAIN d.cols |-> HandleNullsColumn(d.cols[c])]])

(***************************************************************************)
(* convert_numeric_to_int                                                  *)
(***************************************************************************)
\* Mutant: a tie is rounded up.
RoundHalfUp(x) == ((2 * x + Scale) \div (2 * Scale)) * Scale

\* Series.round(0) on one value: to the nearest integer, a tie to the even one
RoundHalfEven(x) ==
  LET q == x \div Scale
      r == x % Scale
  IN  IF 2 * r < Scale THEN q * Scale
      ELSE IF 2 * r > Scale THEN (q + 1) * Scale
      ELSE IF q % 2 = 0 THEN q * Scale
      ELSE (q + 1) * Scale

RoundColumn(col) ==
  [col EXCEPT !.dtype = "int64",
              !.values = [i \in DOMAIN col.values |-> Num(RoundHalfEven(col.values[i].n))]]

\* astype(int) on a column that holds a missing value raises ValueError
ConvertNumericToInt(d) ==
  IF \E c \in DOMAIN d.cols : IsNumeric(d.cols[c]) /\ HasNa(d.cols[c])
    THEN Raised("ValueError")
    ELSE Returned([d EXCEPT !.cols =
                     [c \in DOMAIN d.cols
                        |-> IF IsNumeric(d.cols[c]) THEN RoundColumn(d.cols[c]) ELSE d.cols[c]]])

(***************************************************************************)
(* handle_duplicates                                                       *)
(***************************************************************************)
\* The Python value False among the values of keep, which are texts otherwise
KeepFalse == "<False>"

\* DataFrame.duplicated(keep): the rows to drop
Duplicated(d, k, i) ==
  IF k = "first" THEN \E j \in 1..(i - 1) : Row(d, j) = Row(d, i)
  ELSE IF k = "last" THEN \E j \in (i + 1)..NRows(d) : Row(d, j) = Row(d, i)
  ELSE \E j \in 1..NRows(d) : j # i /\ Row(d, j) = Row(d, i)

RECURSIVE Select(_, _)
Select(s, keepIdx) ==
  IF s = <<>> THEN <<>>
  ELSE Select(SubSeq(s, 1, Len(s) - 1), keepIdx)
         \o (IF Len(s) \in keepIdx THEN << s[Len(s)] >> ELSE <<>>)

TakeRows(d, keepIdx) ==
  [index |-> Select(d.index, keepIdx),
   cols |-> [c \in DOMAIN d.cols
               |-> [d.cols[c] EXCEPT !.values = Select(d.cols[c].values, keepIdx)]]]

\* Mutant: keep is not validated, an unknown value behaves as False.
DropDuplicatesUnchecked(d, k) ==
  Returned(TakeRows(d, { i \in 1..NRows(d) : ~Duplicated(d, k, i) }))

\* DataFrame.drop_duplicates(keep=keep): an empty frame is copied at once,
\* otherwise keep is validated where the duplicates are computed
DropDuplicates(d, k) ==
  IF NRows(d) = 0 \/ NCols(d) = 0 THEN Returned(d)
  ELSE IF k \notin {"first", "last", KeepFalse} THEN Raised("ValueError")
  ELSE Returned(TakeRows(d, { i \in 1..NRows(d) : ~Duplicated(d, k, i) }))

\* Mutant: the index is left as drop_duplicates gave it.
ResetIndexSkipped(d) == d

\* .reset_index(drop=True)
ResetIndex(d) == [d EXCEPT !.index = RangeIndex(Len(d.index))]

HandleDuplicates(d, k) ==
  LET r == DropDuplicates(d, k)
  IN  IF r.exc # "" THEN r ELSE Returned(ResetIndex(r.df))

(***************************************************************************)
(* load_data, save_cleaned_data: a file on disk is its header line and its *)
(* rows of cell texts.                                                     *)
(***************************************************************************)
NoFile == [exists |-> FALSE, header |-> <<>>, rows |-> <<>>]

File(header, rows) == [exists |-> TRUE, header |-> header, rows |-> rows]

\* Cell texts that read_csv takes for a missing value (some of its defaults)
NaTexts == { <<>>, Txt_nan, << "N", "a", "N" >>, << "N", "A" >> }

\* read_csv on one column: numeric when every present cell parses as a
\* number (int64 when all are integer literals and none is missing), text
\* otherwise
ReadColumn(name, texts) ==
  LET present == { i \in DOMAIN texts : texts[i] \notin NaTexts }
      numeric == texts # <<>> /\ \A i \in present : ParseNumber(texts[i]).ok
      allInt == present = DOMAIN texts /\ \A i \in present : ParseNumber(texts[i]).int
  IN  Column(name,
             IF ~numeric THEN "object" ELSE IF allInt THEN "int64" ELSE "float64",
             [i \in DOMAIN texts
                |-> IF i \notin present THEN NaN
                    ELSE IF numeric THEN Num(ParseNumber(texts[i]).n)
                    ELSE Str(texts[i])])

ReadCsv(f) ==
  [index |-> RangeIndex(Len(f.rows)),
   cols |-> [c \in DOMAIN f.header
               |-> ReadColumn(f.header[c], [i \in DOMAIN f.rows |-> f.rows[i][c]])]]

\* The name csv that main hands to load_data is the imported module.
CsvModule == "<module 'csv'>"

\* pd.read_csv(x): x must be a path, and the path must resolve
LoadData(x, dk) ==
  IF x \notin DOMAIN dk THEN Raised("ValueError")
  ELSE IF ~dk[x].exists THEN Raised("FileNotFoundError")
  ELSE Returned(ReadCsv(dk[x]))

\* df.to_csv(index=False): a missing value is written as an empty cell
ToCsv(d) ==
  File(ColumnNames(d),
       [i \in 1..NRows(d)
          |-> [c \in DOMAIN d.cols
                 |-> IF IsNa(d.cols[c].values[i]) THEN <<>>
                     ELSE CellText(d.cols[c].values[i], d.cols[c].dtype)]])

SaveCleanedData(d, path, dk) == [dk EXCEPT ![path] = ToCsv(d)]

(***************************************************************************)
(* main                                                                    *)
(***************************************************************************)
\* The cleaning steps of lines 168-173, in the driver's order
StepNames ==
  << "clean_column_names", "clean_invalid_values", "format_data_types",
     "handle_nulls", "convert_numeric_to_int", "handle_duplicates" >>

\* One line of main: df = step(df)
ApplyStep(name, d, k) ==
  CASE name = "clean_column_names" -> CleanColumnNames(d)
    [] name = "clean_invalid_values" -> CleanInvalidValues(d)
    [] name = "format_data_types" -> FormatDataTypes(d)
    [] name = "handle_nulls" -> HandleNulls(d)
    [] name = "convert_numeric_to_int" -> ConvertNumericToInt(d)
    [] name = "handle_duplicates" -> HandleDuplicates(d, k)

\* The steps from the i-th on, each on what the previous one returned; an
\* exception propagates
RECURSIVE RunFrom(_, _, _)
RunFrom(i, r, k) ==
  IF i > Len(StepNames) \/ r.exc # "" THEN r
  ELSE RunFrom(i + 1, ApplyStep(StepNames[i], r.df, k), k)

RunSteps(d, k) == RunFrom(1, Returned(d), k)

\* main(url, output_path, keep_duplicates): what it returns or raises, and
\* the disk it leaves
MainCall(u, o, k, dk) ==
  LET r == RunFrom(1, LoadData(CsvModule, dk), k)
  IN  [ret |-> r,
       disk |-> IF r.exc = "" THEN SaveCleanedData(r.df, o, dk) ELSE dk]

(***************************************************************************)
(* Calls of one function on a table drawn from a bounded family.           *)
(***************************************************************************)
NoDisk == [p \in {} |-> NoFile]

Ready(a, k) ==
  /\ pc = "call"
  /\ arg = a
  /\ keep = k
  /\ ret = NoCall
  /\ df = NoDF
  /\ disk = NoDisk
  /\ url = ""
  /\ output_path = ""

\* A column description: its name, its dtype and the cells it may hold
Template(name, dtype, cells) == [name |-> name, dtype |-> dtype, cells |-> cells]

\* The column of a template with the given cells
ColumnOf(tpl, cells) == Column(tpl.name, tpl.dtype, cells)

\* The table of the given columns under the index read_csv gives
Frame(cols) == [index |-> RangeIndex(Len(cols[1].values)), cols |-> cols]

(***************************************************************************)
(* clean_column_names on tables with pairwise distinct header names.       *)
(***************************************************************************)
HeaderNames ==
  { << "S", "T" >>,
    << "S", "t" >>,
    << "s", "t" >>,
    << "s", "t", "a", "t", "e" >>,
    << "S", "t", "a", "t", "e" >>,
    << "s", "t", "a", "t", "u", "s" >>,
    << "S", "t", "a", "t", "u", "s" >>,
    << "A", " ", "B" >>,
    << "a", "_", "b" >>,
    << "A", "_", "B" >>,
    << "a", " ", "b" >>,
    << "G", "e", "n", "d", "e", "r" >> }

Txt_x == << "x" >>

InitNames ==
  \E n \in 1..MaxCols :
    \E h \in [1..n -> HeaderNames] :
      /\ \A i, j \in 1..n : i # j => h[i] # h[j]
      /\ Ready(Frame([c \in 1..n |-> Column(h[c], "object", << Str(Txt_x) >>)]), "first")

CallCleanColumnNames ==
  /\ pc = "call"
  /\ ret' = CleanColumnNames(arg)
  /\ pc' = "done"
  /\ UNCHANGED <<df, arg, keep, disk, url, output_path>>

SpecNames == InitNames /\ [][CallCleanColumnNames]_vars

IsLowerText(s) == \A i \in DOMAIN s : ~IsUpper(s[i])

HasNoSpace(s) == \A i \in DOMAIN s : s[i] # " "

\* A name lowercased and with underscores for spaces, character by character
FoldName(s) == [i \in DOMAIN s |-> IF s[i] = " " THEN "_" ELSE LowerChar(s[i])]

\* Two header names that the normalisation cannot tell apart
Collide(a, b) ==
  \/ FoldName(a) = FoldName(b)
  \/ { FoldName(a), FoldName(b) } = { Txt_st, Txt_state }

\* C3 (as stated): for every table with pairwise distinct column names, the
\* names clean_column_names returns are lowercase, space-free and pairwise
\* distinct.
C3_Original ==
  pc = "done" =>
    /\ ret.exc = ""
    /\ \A c \in DOMAIN ret.df.cols :
         IsLowerText(ret.df.cols[c].name) /\ HasNoSpace(ret.df.cols[c].name)
    /\ \A i, j \in DOMAIN ret.df.cols :
         i # j => ret.df.cols[i].name # ret.df.cols[j].name

\* C3 (amended): clean_column_names returns as many columns as it was given,
\* every name lowercase and space-free; two returned names are equal exactly
\* when the two input names are equal up to letter case and space versus
\* underscore, or one of them so reads 'st' and the other 'state'.
C3_Amended ==
  pc = "done" =>
    /\ ret.exc = ""
    /\ NCols(ret.df) = NCols(arg)
    /\ \A c \in DOMAIN ret.df.cols :
         IsLowerText(ret.df.cols[c].name) /\ HasNoSpace(ret.df.cols[c].name)
    /\ \A i, j \in DOMAIN ret.df.cols :
         (ret.df.cols[i].name = ret.df.cols[j].name)
           <=> Collide(arg.cols[i].name, arg.cols[j].name)

\* A call on distinct names with capitals and a space, of which two collide
C3_Witness ==
  /\ pc = "done"
  /\ NCols(arg) = 2
  /\ arg.cols[1].name = << "A", " ", "B" >>
  /\ arg.cols[2].name = << "a", "_", "b" >>
  /\ ret.df.cols[1].name = ret.df.cols[2].name

(***************************************************************************)
(* clean_invalid_values on tables with a customer_lifetime_value column    *)
(* of any dtype, alone or beside one of the other known columns.           *)
(***************************************************************************)
Txt_10_50pct == << "1", "0", ".", "5", "0", "%" >>
Txt_pct5pct == << "%", "5", "%" >>
Txt_7 == << "7" >>
Txt_Master == << "M", "a", "s", "t", "e", "r" >>
Txt_Oregon == << "O", "r", "e", "g", "o", "n" >>
Txt_SUV == << "S", "U", "V" >>

ClvTemplates ==
  { Template(Txt_customer_lifetime_value, "object",
             { Str(Txt_10_50pct), Str(Txt_pct5pct), Str(Txt_7), NaN }),
    Template(Txt_customer_lifetime_value, "float64", { Num(1050), NaN }),
    Template(Txt_customer_lifetime_value, "int64", { Num(700) }) }

OtherTemplates ==
  { Template(Txt_gender, "object",
             { Str(Txt_Male), Str(Txt_female), Str(Txt_Femal), Str(Txt_F), NaN }),
    Template(Txt_state, "object",
             { Str(Txt_AZ), Str(Txt_Cali), Str(Txt_WA), Str(Txt_Oregon), NaN }),
    Template(Txt_education, "object",
             { Str(Txt_Bachelors), Str(Txt_Master), NaN }),
    Template(Txt_vehicle_class, "object",
             { Str(Txt_Sports_Car), Str(Txt_Luxury_SUV), Str(Txt_Luxury_Car),
               Str(Txt_SUV), NaN }) }

InitValues ==
  \E n \in 1..MaxCells, t \in ClvTemplates :
    \E a \in [1..n -> t.cells] :
      \/ Ready(Frame(<< ColumnOf(t, a) >>), "first")
      \/ \E o \in OtherTemplates :
           \E b \in [1..n -> o.cells] :
             Ready(Frame(<< ColumnOf(t, a), ColumnOf(o, b) >>), "first")

CallCleanInvalidValues ==
  /\ pc = "call"
  /\ ret' = CleanInvalidValues(arg)
  /\ pc' = "done"
  /\ UNCHANGED <<df, arg, keep, disk, url, output_path>>

SpecValues == InitValues /\ [][CallCleanInvalidValues]_vars

\* The text with its '%' characters left out
RECURSIVE WithoutPercent(_)
WithoutPercent(s) ==
  IF s = <<>> THEN <<>>
  ELSE IF s[Len(s)] = "%" THEN WithoutPercent(SubSeq(s, 1, Len(s) - 1))
  ELSE WithoutPercent(SubSeq(s, 1, Len(s) - 1)) \o << s[Len(s)] >>

\* C8: on every table with a customer_lifetime_value column, of text or of
\* numeric dtype, clean_invalid_values completes and returns the column as
\* text: each present value is its string form without '%', each missing
\* value is still missing.
C8_Claim ==
  pc = "done" =>
    /\ ret.exc = ""
    /\ NCols(ret.df) = NCols(arg)
    /\ ret.df.cols[1].name = Txt_customer_lifetime_value
    /\ ret.df.cols[1].dtype = "object"
    /\ \A i \in 1..NRows(arg) :
         LET v == arg.cols[1].values[i]
             w == ret.df.cols[1].values[i]
         IN  IF IsNa(v) THEN IsNa(w)
             ELSE w = Str(WithoutPercent(CellText(v, arg.cols[1].dtype)))

(***************************************************************************)
(* format_data_types on tables with a number_of_open_complaints column,    *)
(* alone or beside a customer_lifetime_value column.                       *)
(***************************************************************************)
Txt_1_5_00 == << "1", "/", "5", "/", "0", "0" >>
Txt_1_2_00 == << "1", "/", "2", "/", "0", "0" >>
Txt_1_x_00 == << "1", "/", "x", "/", "0", "0" >>
Txt_1__00 == << "1", "/", "/", "0", "0" >>
Txt_3_4 == << "3", "/", "4" >>
Txt_no_slash == << "n", "o", "-", "s", "l", "a", "s", "h" >>
Txt_10_50 == << "1", "0", ".", "5", "0" >>
Txt_abc == << "a", "b", "c" >>

ComplaintsTemplates ==
  { Template(Txt_number_of_open_complaints, "object",
             { Str(Txt_1_5_00), Str(Txt_1_2_00), Str(Txt_1_x_00), Str(Txt_1__00),
               Str(Txt_3_4), Str(Txt_no_slash), NaN }),
    Template(Txt_number_of_open_complaints, "int64", { Num(0), Num(300) }),
    Template(Txt_number_of_open_complaints, "float64", { Num(150), NaN }) }

ClvTextTemplate ==
  Template(Txt_customer_lifetime_value, "object",
           { Str(Txt_10_50), Str(Txt_7), Str(Txt_abc), NaN })

InitTypes ==
  \E n \in 1..MaxCells, t \in ComplaintsTemplates :
    \E a \in [1..n -> t.cells] :
      \/ Ready(Frame(<< ColumnOf(t, a) >>), "first")
      \/ \E b \in [1..n -> ClvTextTemplate.cells] :
           Ready(Frame(<< ColumnOf(t, a), ColumnOf(ClvTextTemplate, b) >>), "first")

CallFormatDataTypes ==
  /\ pc = "call"
  /\ ret' = FormatDataTypes(arg)
  /\ pc' = "done"
  /\ UNCHANGED <<df, arg, keep, disk, url, output_path>>

SpecTypes == InitTypes /\ [][CallFormatDataTypes]_vars

Slashes(s) == { i \in DOMAIN s : s[i] = "/" }

Min(S) == CHOOSE x \in S : \A y \in S : x <= y

\* The text between the first '/' of s and its next '/' (or its end)
SecondField(s) ==
  LET a == Min(Slashes(s))
      later == { i \in Slashes(s) : i > a }
      b == IF later = {} THEN Len(s) + 1 ELSE Min(later)
  IN  SubSeq(s, a + 1, b - 1)

\* What the claim gives for one cell of number_of_open_complaints
ComplaintsOf(v) ==
  IF v.t # "str" \/ Slashes(v.s) = {} THEN NaN
  ELSE IF SecondField(v.s) # <<>> /\ IsDigits(SecondField(v.s))
    THEN Num(DigitsValue(SecondField(v.s)) * Scale)
  ELSE NaN

\* C9: format_data_types turns each cell of number_of_open_complaints, by
\* itself, into the number its token at index 1 of the split on '/' stands
\* for ("1/5/00" gives 5), and into a missing marker when the value has no
\* '/', is missing or has a non-numeric middle token; it never fails and
\* keeps the row count.
C9_Complaints ==
  pc = "done" =>
    /\ ret.exc = ""
    /\ NRows(ret.df) = NRows(arg)
    /\ NCols(ret.df) = NCols(arg)
    /\ ret.df.cols[1].name = Txt_number_of_open_complaints
    /\ IsNumeric(ret.df.cols[1])
    /\ \A i \in 1..NRows(arg) :
         /\ ret.df.cols[1].values[i] = ComplaintsOf(arg.cols[1].values[i])
         /\ arg.cols[1].values[i] = Str(Txt_1_5_00)
              => ret.df.cols[1].values[i] = Num(5 * Scale)
         /\ arg.cols[1].values[i] = Str(Txt_no_slash)
              => IsNa(ret.df.cols[1].values[i])

\* A call on a column that holds "1/5/00" beside a malformed cell
C9_Witness ==
  /\ pc = "done"
  /\ NRows(arg) = 2
  /\ arg.cols[1].values[1] = Str(Txt_no_slash)
  /\ arg.cols[1].values[2] = Str(Txt_1_5_00)
  /\ ret.df.cols[1].values[2] = Num(5 * Scale)

(***************************************************************************)
(* handle_nulls on tables with a float64 column, a text column or both,    *)
(* any of their cells missing.                                             *)
(***************************************************************************)
FloatTemplate ==
  Template(Txt_customer_lifetime_value, "float64",
           { Num(10 * Scale), Num(20 * Scale), Num(40 * Scale), NaN })

TextTemplate == Template(Txt_gender, "object", { Str(Txt_M), Str(Txt_F), NaN })

InitNulls ==
  \E n \in 1..MaxRows :
    \/ \E a \in [1..n -> FloatTemplate.cells] :
         \/ Ready(Frame(<< ColumnOf(FloatTemplate, a) >>), "first")
         \/ \E b \in [1..n -> TextTemplate.cells] :
              Ready(Frame(<< ColumnOf(FloatTemplate, a), ColumnOf(TextTemplate, b) >>), "first")
    \/ \E b \in [1..n -> TextTemplate.cells] :
         Ready(Frame(<< ColumnOf(TextTemplate, b) >>), "first")

CallHandleNulls ==
  /\ pc = "call"
  /\ ret' = HandleNulls(arg)
  /\ pc' = "done"
  /\ UNCHANGED <<df, arg, keep, disk, url, output_path>>

SpecNulls == InitNulls /\ [][CallHandleNulls]_vars

SameShape(a, b) ==
  /\ a.index = b.index
  /\ NCols(a) = NCols(b)
  /\ \A c \in DOMAIN a.cols :
       /\ a.cols[c].name = b.cols[c].name
       /\ Len(a.cols[c].values) = Len(b.cols[c].values)

NoMissing(d) ==
  \A c \in DOMAIN d.cols : \A i \in DOMAIN d.cols[c].values : ~IsNa(d.cols[c].values[i])

\* C2: on every table, one with an all-missing numeric or text column
\* included, handle_nulls completes and returns a table of the same rows and
\* columns in which no cell is missing.
C2_Claim ==
  pc = "done" => (ret.exc = "" /\ SameShape(ret.df, arg) /\ NoMissing(ret.df))

Present(col) == { i \in DOMAIN col.values : ~IsNa(col.values[i]) }

FirstAt(col, v) == Min({ i \in DOMAIN col.values : col.values[i] = v })

\* fill is a most frequent present value of col
MostFrequent(col, fill) ==
  /\ \E i \in Present(col) : col.values[i] = fill
  /\ \A i \in Present(col) : Count(col.values, col.values[i]) <= Count(col.values, fill)

\* The values of col that are as frequent as fill, fill apart
TiedWith(col, fill) ==
  { col.values[i] : i \in { j \in Present(col) :
        col.values[j] # fill /\ Count(col.values, col.values[j]) = Count(col.values, fill) } }

\* out is col with every missing cell set to fill
FilledWith(col, out, fill) ==
  \A i \in DOMAIN col.values :
    out.values[i] = IF IsNa(col.values[i]) THEN fill ELSE col.values[i]

TextColumnsToFill(d) ==
  { c \in DOMAIN d.cols :
      d.cols[c].dtype = "object" /\ HasNa(d.cols[c]) /\ Present(d.cols[c]) # {} }

RoundTemplate ==
  Template(Txt_customer_lifetime_value, "float64",
           { Num(250), Num(350), Num(1050), Num(225), Num(275),
             Num(0 - 250), Num(0 - 50), NaN })

CountTemplate ==
  Template(Txt_number_of_open_complaints, "int64", { Num(0), Num(3 * Scale) })

GenderTemplate == Template(Txt_gender, "object", { Str(Txt_F), NaN })

InitInts ==
  \E n \in 1..MaxCells :
    \E a \in [1..n -> RoundTemplate.cells] :
      \/ Ready(Frame(<< ColumnOf(RoundTemplate, a) >>), "first")
      \/ \E b \in [1..n -> CountTemplate.cells], c \in [1..n -> GenderTemplate.cells] :
           Ready(Frame(<< ColumnOf(RoundTemplate, a), ColumnOf(CountTemplate, b),
                          ColumnOf(GenderTemplate, c) >>), "first")

CallConvertNumericToInt ==
  /\ pc = "call"
  /\ ret' = ConvertNumericToInt(arg)
  /\ pc' = "done"
  /\ UNCHANGED <<df, arg, keep, disk, url, output_path>>

SpecInts == InitInts /\ [][CallConvertNumericToInt]_vars

NumericComplete(d) ==
  \A c \in DOMAIN d.cols : IsNumeric(d.cols[c]) => ~HasNa(d.cols[c])

\* y is x rounded to the nearest integer, a tie going to the even one
NearestEven(x, y) ==
  /\ y % Scale = 0
  /\ 2 * Abs(y - x) <= Scale
  /\ 2 * Abs(y - x) = Scale => (y \div Scale) % 2 = 0

\* C10: on a table whose numeric columns hold no missing value,
\* convert_numeric_to_int returns every numeric column as int64 with each
\* value rounded to the nearest integer, ties half-to-even (2.5 gives 2, 3.5
\* gives 4, 10.5 gives 10), and leaves text columns and the row count as
\* they are.
C10_RoundHalfEven ==
  (pc = "done" /\ NumericComplete(arg)) =>
    /\ ret.exc = ""
    /\ SameShape(ret.df, arg)
    /\ \A c \in DOMAIN arg.cols :
         IF IsNumeric(arg.cols[c])
           THEN /\ ret.df.cols[c].dtype = "int64"
                /\ \A i \in 1..NRows(arg) :
                     LET x == arg.cols[c].values[i]
                         y == ret.df.cols[c].values[i]
                     IN  /\ y.t = "num"
                         /\ NearestEven(x.n, y.n)
                         /\ x.n = 250 => y.n = 2 * Scale
                         /\ x.n = 350 => y.n = 4 * Scale
                         /\ x.n = 1050 => y.n = 10 * Scale
           ELSE ret.df.cols[c] = arg.cols[c]

\* A call that rounds 2.5 to 2 and 3.5 to 4 beside a text column
C10_Witness ==
  /\ pc = "done"
  /\ NCols(arg) = 3
  /\ arg.cols[1].values = << Num(250), Num(350) >>
  /\ ret.exc = ""
  /\ ret.df.cols[1].values = << Num(2 * Scale), Num(4 * Scale) >>

(***************************************************************************)
(* handle_duplicates on tables of a few rows, some equal, and on a table   *)
(* without columns, under every kind of keep.                              *)
(***************************************************************************)
DedupRows ==
  { << Str(Txt_AZ), Num(1 * Scale) >>, << Str(Txt_AZ), Num(2 * Scale) >>,
    << Str(Txt_WA), Num(1 * Scale) >>, << NaN, Num(1 * Scale) >> }

DedupTable(rows) ==
  [index |-> RangeIndex(Len(rows)),
   cols |-> << Column(Txt_state, "object", [i \in DOMAIN rows |-> rows[i][1]]),
               Column(Txt_number_of_open_complaints, "int64",
                      [i \in DOMAIN rows |-> rows[i][2]]) >>]

KeepValues == { "first", "last", KeepFalse, "all" }

InitDedup ==
  \E k \in KeepValues :
    \/ Ready(NoDF, k)
    \/ \E n \in 0..MaxRows :
         \E rows \in [1..n -> DedupRows] : Ready(DedupTable(rows), k)

CallHandleDuplicates ==
  /\ pc = "call"
  /\ ret' = HandleDuplicates(arg, keep)
  /\ pc' = "done"
  /\ UNCHANGED <<df, arg, keep, disk, url, output_path>>

SpecDedup == InitDedup /\ [][CallHandleDuplicates]_vars

IsEmptyFrame(d) == NRows(d) = 0 \/ NCols(d) = 0

Rows(d) == { Row(d, i) : i \in 1..NRows(d) }

\* The k-th smallest member of a set of row numbers
Nth(S, k) == CHOOSE i \in S : Cardinality({ j \in S : j <= i }) = k

\* out holds exactly the rows of d numbered in S, in their order in d
HoldsRows(out, d, S) ==
  /\ NRows(out) = Cardinality(S)
  /\ NCols(out) = NCols(d)
  /\ \A c \in DOMAIN d.cols :
       /\ out.cols[c].name = d.cols[c].name
       /\ out.cols[c].dtype = d.cols[c].dtype
       /\ Len(out.cols[c].values) = Cardinality(S)
  /\ \A k \in 1..Cardinality(S) : Row(out, k) = Row(d, Nth(S, k))

\* C4 (as stated): handle_duplicates fails with an invalid-argument error
\* for every keep that is neither "first" nor "last", False included,
\* whatever the rows of the table.
C4_Original ==
  (pc = "done" /\ keep \notin {"first", "last"}) => ret.exc = "ValueError"

\* C4 (amended): handle_duplicates fails with ValueError for every keep
\* other than "first", "last" and False when the table has a row and a
\* column; an empty table is returned as it is, keep unchecked; keep=False is
\* accepted and drops every row that has an equal row.
C4_Amended ==
  pc = "done" =>
    /\ (keep \notin {"first", "last", KeepFalse} /\ ~IsEmptyFrame(arg))
         => ret.exc = "ValueError"
    /\ IsEmptyFrame(arg) => ret = Returned(arg)
    /\ (keep = KeepFalse /\ ~IsEmptyFrame(arg))
         => /\ ret.exc = ""
            /\ HoldsRows(ret.df, arg,
                 { i \in 1..NRows(arg) :
                     \A j \in 1..NRows(arg) : j # i => Row(arg, j) # Row(arg, i) })

\* A call with an unknown keep on a table that has rows, rejected
C4_Witness ==
  /\ pc = "done"
  /\ keep = "all"
  /\ NRows(arg) = 2
  /\ ret.exc = "ValueError"

\* C5: for keep "first" or "last", handle_duplicates returns one row per
\* group of equal rows (its first or its last occurrence), the surviving
\* rows in their original order and the index 0..n-1; so the result has no
\* two equal rows and the same distinct rows as the input.
C5_Dedup ==
  (pc = "done" /\ keep \in {"first", "last"}) =>
    /\ ret.exc = ""
    /\ ret.df.index = RangeIndex(NRows(ret.df))
    /\ HoldsRows(ret.df, arg,
         IF keep = "first"
           THEN { i \in 1..NRows(arg) : \A j \in 1..(i - 1) : Row(arg, j) # Row(arg, i) }
           ELSE { i \in 1..NRows(arg) : \A j \in (i + 1)..NRows(arg) : Row(arg, j) # Row(arg, i) })
    /\ \A i, j \in 1..NRows(ret.df) : i # j => Row(ret.df, i) # Row(ret.df, j)
    /\ Rows(ret.df) = Rows(arg)

\* keep="last" on rows A, B, A: the result is B, A under the index 0, 1
C5_Witness ==
  /\ pc = "done"
  /\ keep = "last"
  /\ NRows(arg) = 3
  /\ Row(arg, 1) = << Str(Txt_AZ), Num(1 * Scale) >>
  /\ Row(arg, 2) = << Str(Txt_WA), Num(1 * Scale) >>
  /\ Row(arg, 3) = << Str(Txt_AZ), Num(1 * Scale) >>
  /\ ret.exc = ""
  /\ ret.df.index = << 0, 1 >>
  /\ Row(ret.df, 1) = << Str(Txt_WA), Num(1 * Scale) >>
  /\ Row(ret.df, 2) = << Str(Txt_AZ), Num(1 * Scale) >>

(***************************************************************************)
(* The six cleaning steps of main, one after the other, on the table read  *)
(* from a file with the scenario's header and the scenario's row among a   *)
(* few other rows.                                                         *)
(***************************************************************************)
ScenarioHeader ==
  << << "S", "T" >>,
     << "G", "e", "n", "d", "e", "r" >>,
     << "E", "d", "u", "c", "a", "t", "i", "o", "n" >>,
     << "C", "u", "s", "t", "o", "m", "e", "r", " ", "L", "i", "f", "e", "t", "i", "m", "e", " ", "V", "a", "l", "u", "e" >>,
     << "N", "u", "m", "b", "e", "r", " ", "o", "f", " ", "O", "p", "e", "n", " ", "C", "o", "m", "p", "l", "a", "i", "n", "t", "s" >>,
     << "V", "e", "h", "i", "c", "l", "e", " ", "C", "l", "a", "s", "s" >> >>

ScenarioRow ==
  << << "A", "Z" >>,
     << "f", "e", "m", "a", "l", "e" >>,
     << "B", "a", "c", "h", "e", "l", "o", "r", "s" >>,
     << "1", "0", ".", "5", "0", "%" >>,
     << "1", "/", "2", "/", "0", "0" >>,
     << "S", "p", "o", "r", "t", "s", " ", "C", "a", "r" >> >>

ExtraRow1 ==
  << << "C", "a", "l", "i" >>,
     << "M", "a", "l", "e" >>,
     << "M", "a", "s", "t", "e", "r" >>,
     << "7", "%" >>,
     << "1", "/", "0", "/", "0", "0" >>,
     << "L", "u", "x", "u", "r", "y", " ", "S", "U", "V" >> >>

ExtraRow2 ==
  << <<>>,
     <<>>,
     <<>>,
     <<>>,
     <<>>,
     <<>> >>

ExtraRow3 ==
  << << "A", "r", "i", "z", "o", "n", "a" >>,
     << "F" >>,
     << "B", "a", "c", "h", "e", "l", "o", "r" >>,
     << "9", ".", "5" >>,
     << "1", "/", "2", "/", "0", "0" >>,
     << "L", "u", "x", "u", "r", "y" >> >>

ExtraRow4 ==
  << << "W", "A" >>,
     << "F", "e", "m", "a", "l" >>,
     << "B", "a", "c", "h", "e", "l", "o", "r", "s" >>,
     << "a", "b", "c" >>,
     << "n", "o", "-", "s", "l", "a", "s", "h" >>,
     << "L", "u", "x", "u", "r", "y", " ", "C", "a", "r" >> >>

ExtraRows == { ScenarioRow, ExtraRow1, ExtraRow2, ExtraRow3, ExtraRow4 }

\* A file with the scenario's row at any place among up to MaxExtra others
InitPipeline ==
  \E n \in 0..MaxExtra :
    \E rows \in [1..n -> ExtraRows], at \in 0..n, k \in {"first", "last"} :
      /\ pc = "clean_column_names"
      /\ df = ReadCsv(File(ScenarioHeader,
                           SubSeq(rows, 1, at) \o << ScenarioRow >> \o SubSeq(rows, at + 1, n)))
      /\ arg = df
      /\ keep = k
      /\ ret = NoCall
      /\ disk = NoDisk
      /\ url = ""
      /\ output_path = ""

\* One line of main: df = step(df); an exception ends the run
RunStep(at, r, next) ==
  /\ pc = at
  /\ IF r.exc = ""
       THEN df' = r.df /\ pc' = next /\ ret' = (IF next = "done" THEN r ELSE ret)
       ELSE df' = df /\ pc' = "raised" /\ ret' = r
  /\ UNCHANGED <<arg, keep, disk, url, output_path>>

StepCleanColumnNames ==
  RunStep("clean_column_names", CleanColumnNames(df), "clean_invalid_values")

StepCleanInvalidValues ==
  RunStep("clean_invalid_values", CleanInvalidValues(df), "format_data_types")

StepFormatDataTypes ==
  RunStep("format_data_types", FormatDataTypes(df), "handle_nulls")

StepHandleNulls ==
  RunStep("handle_nulls", HandleNulls(df), "convert_numeric_to_int")

StepConvertNumericToInt ==
  RunStep("convert_numeric_to_int", ConvertNumericToInt(df), "handle_duplicates")

StepHandleDuplicates ==
  RunStep("handle_duplicates", HandleDuplicates(df, keep), "done")

NextPipeline ==
  \/ StepCleanColumnNames
  \/ StepCleanInvalidValues
  \/ StepFormatDataTypes
  \/ StepHandleNulls
  \/ StepConvertNumericToInt
  \/ StepHandleDuplicates

SpecPipeline == InitPipeline /\ [][NextPipeline]_vars

ScenarioColumns ==
  << Txt_state, Txt_gender, Txt_education, Txt_customer_lifetime_value,
     Txt_number_of_open_complaints, Txt_vehicle_class >>

ScenarioResult ==
  << Str(Txt_Arizona), Str(Txt_F), Str(Txt_Bachelor), Num(10 * Scale), Num(2 * Scale),
     Str(Txt_Luxury) >>

\* C6: the steps in driver order, run on a table with the scenario's columns
\* that includes the scenario's row, end with a table that holds the row
\* state="Arizona", gender="F", education="Bachelor",
\* customer_lifetime_value=10, number_of_open_complaints=2,
\* vehicle_class="Luxury".
C6_Scenario ==
  /\ pc # "raised"
  /\ pc = "done" =>
       /\ ret = Returned(df)
       /\ ColumnNames(df) = ScenarioColumns
       /\ df.cols[4].dtype = "int64"
       /\ df.cols[5].dtype = "int64"
       /\ \E i \in 1..NRows(df) : Row(df, i) = ScenarioResult

\* A finished run on three rows of which one was dropped as a duplicate
C6_Witness ==
  /\ pc = "done"
  /\ NRows(arg) = 3
  /\ NRows(df) = 2
  /\ Row(df, 2) = ScenarioResult

(***************************************************************************)
(* main called on a disk with an input file, readable or not.              *)
(***************************************************************************)
Paths == { "data.csv", "combined_data.csv" }

MainFiles ==
  { NoFile, File(ScenarioHeader, << ScenarioRow >>),
    File(ScenarioHeader, << ExtraRow1, ScenarioRow >>),
    File(ScenarioHeader, << ScenarioRow, ExtraRow3, ExtraRow4 >>) }

InitMain ==
  /\ pc = "call"
  /\ df = NoDF
  /\ arg = NoDF
  /\ keep = "first"
  /\ ret = NoCall
  /\ disk \in [Paths -> MainFiles]
  /\ url = ""
  /\ output_path = ""

CallMain ==
  \E u \in Paths, o \in Paths, k \in {"first", "last"} :
    /\ pc = "call"
    /\ url' = u
    /\ output_path' = o
    /\ keep' = k
    /\ LET m == MainCall(u, o, k, disk)
       IN  ret' = m.ret /\ disk' = m.disk
    /\ pc' = "done"
    /\ UNCHANGED <<df, arg>>

SpecMain == InitMain /\ [][CallMain]_vars

\* C1: called with the path of a readable, well-formed file, main loads the
\* table from that path, runs the six cleaning steps once each in order on
\* it, writes the final table to the output path and returns it.
C1_Claim ==
  [][(pc = "call" /\ pc' = "done" /\ disk[url'].exists) =>
       /\ ret' = RunSteps(ReadCsv(disk[url']), keep')
       /\ ret'.exc = ""
       /\ disk' = SaveCleanedData(ret'.df, output_path', disk)]_vars

====
